---- MODULE Spec2Model ----
(***************************************************************************)
(* CoreSnake: the grid simulation (src/game/SnakeGame.ts) and the tabular  *)
(* Q-learning agent that drives it (src/unnamed/part_001).                 *)
(*                                                                         *)
(* Rewards are held in hundredths (-0.05 is -5, 30 is 3000).  Math.random  *)
(* is a nondeterministic input: getRandomEmptyPoint yields the set of      *)
(* points it can return, and the spawn roll is a free choice.              *)
(***************************************************************************)
EXTENDS Integers, Sequences, FiniteSets, TLC

\* ------------------------------------------------------------ constants

GRID_SIZE == 30
LEVEL_GOAL == 10
maxSteps == 3000
\* score * 50 in the step budget
BudgetPerScore == 50
\* this.state.steps % 75 === 0
SpawnPeriod == 75
\* expires: this.state.steps + 150
ItemLifetime == 150
\* this.state.specialItems.length < 3
MaxItems == 3
\* this.state.slowEffectSteps = 20
SlowDuration == 20
\* Math.max(0, newSnake.length - 5) and Math.min(3, reduceAmount)
ScissorsFloor == 5
ScissorsMaxCut == 3

\* returned rewards, in hundredths
RewardGameOver == -2000
RewardDeath == -10000
RewardPortal == 25000
RewardStep == -5
RewardGold == 6000
RewardScissors == 4000
RewardIce == 1500
RewardFood == 3000
ScoreGold == 15
ScoreScissors == 5
ScoreIce == 2

\* the agent's hyperparameters: alpha 0.25 and gamma 0.95 in hundredths,
\* epsilon in units of 1e-8 (1.0 is 100000000), epsilonDecay 0.999997 in
\* millionths
alpha == 25
gamma == 95
epsilonStart == 100000000
epsilonMin == 1000000
epsilonDecay == 999997
\* reward += 0.8 / reward -= 0.8, in hundredths
ShapingBonus == 80

\* ------------------------------------------------------------ bounds

\* step calls made in one behaviour of the game
MaxMoves == 5
\* calls (update, reset, step) made in one behaviour of the agent
MaxDecisions == 3
\* cells the random source can produce: the first NumRandCells of Cand
NumRandCells == 4

\* ------------------------------------------------------------ points

Pt(px, py) == [x |-> px, y |-> py]

Max(a, b) == IF a > b THEN a ELSE b
Min(a, b) == IF a < b THEN a ELSE b

InBoard(p) == p.x >= 0 /\ p.x < GRID_SIZE /\ p.y >= 0 /\ p.y < GRID_SIZE

Directions == {"UP", "DOWN", "LEFT", "RIGHT"}
ItemTypes == {"GOLD", "SCISSORS", "ICE"}

Cand == << Pt(15, 14), Pt(16, 14), Pt(15, 13), Pt(14, 14), Pt(16, 15), Pt(1, 1) >>
RandCells == {Cand[i] : i \in 1..Min(NumRandCells, Len(Cand))}

SpawnSnake == << Pt(15, 15), Pt(15, 16), Pt(15, 17) >>

Cells(seq) == {seq[i] : i \in 1..Len(seq)}
ItemCells(items) == {items[i].point : i \in 1..Len(items)}

\* ------------------------------------------------------------ walls

\* The cells of level 4 and 5 for which
\*   abs(sin(level*1.618 + i*12.9898 + j*78.233) * 43758.5453) % 1
\* is below min(0.15, 0.05 + level*0.0001), outside the center area
\* (abs(i-15) < 3 and abs(j-15) < 3), evaluated in IEEE doubles.
ProceduralWalls(level) ==
  CASE level = 4 ->
       { Pt(0,13), Pt(1,5), Pt(1,17), Pt(4,1), Pt(6,14), Pt(6,21), Pt(7,10),
         Pt(7,14), Pt(9,12), Pt(9,20), Pt(9,23), Pt(9,26), Pt(10,6), Pt(10,24),
         Pt(11,2), Pt(11,3), Pt(11,7), Pt(12,6), Pt(12,25), Pt(15,18), Pt(15,19),
         Pt(16,7), Pt(16,12), Pt(16,28), Pt(17,20), Pt(18,26), Pt(20,15),
         Pt(20,19), Pt(21,11), Pt(21,23), Pt(21,25), Pt(22,20), Pt(23,6),
         Pt(23,22), Pt(24,24), Pt(25,0), Pt(25,9), Pt(25,21), Pt(26,27),
         Pt(26,28), Pt(28,1), Pt(28,3), Pt(29,7) }
    [] level = 5 ->
       { Pt(0,7), Pt(0,21), Pt(1,6), Pt(1,9), Pt(1,13), Pt(1,15), Pt(2,15),
         Pt(3,0), Pt(3,1), Pt(3,13), Pt(3,17), Pt(4,23), Pt(5,3), Pt(5,11),
         Pt(5,21), Pt(7,24), Pt(9,0), Pt(9,10), Pt(12,8), Pt(12,20), Pt(13,5),
         Pt(15,6), Pt(16,5), Pt(16,8), Pt(17,8), Pt(17,18), Pt(17,20), Pt(18,1),
         Pt(18,12), Pt(19,0), Pt(19,16), Pt(21,0), Pt(22,18), Pt(22,24),
         Pt(23,3), Pt(23,21), Pt(24,15), Pt(26,27), Pt(26,29), Pt(28,5),
         Pt(28,9), Pt(28,14), Pt(29,23), Pt(29,27), Pt(29,29) }

getLevelWalls(level) ==
  IF level = 2 THEN
    UNION { {Pt(i, 10), Pt(i, 20)} \cup
            (IF i > 10 /\ i < 20 /\ i # 15 THEN {Pt(10, i), Pt(20, i)} ELSE {})
            : i \in 10..19 }
  ELSE IF level = 3 THEN
    UNION { {Pt(15, i), Pt(15, GRID_SIZE - i - 1), Pt(i, 15), Pt(GRID_SIZE - i - 1, 15)}
            : i \in 0..11 }
  ELSE IF level >= 4 THEN ProceduralWalls(level)
  ELSE {}

\* wallMap is held as the set of cells whose entry is true
isPointWall(wm, px, py) ==
  IF px < 0 \/ px >= GRID_SIZE \/ py < 0 \/ py >= GRID_SIZE THEN TRUE
  ELSE Pt(px, py) \in wm

\* ------------------------------------------------------------ random cells

\* Mutant: the cells of the snake are not excluded.
getRandomEmptyPoint_IgnoresBody(wm, snake, otherItems) ==
  { p \in RandCells : p \notin wm /\ p \notin ItemCells(otherItems) }
    \cup { Pt(0, 0) }

\* Up to 500 random cells are tried and the first one that is not a wall,
\* not on the snake and not on an item is returned; every attempt can be
\* rejected (the snake is never empty), which returns the fallback (0,0).
getRandomEmptyPoint(wm, snake, otherItems) ==
  { p \in RandCells : p \notin wm /\ p \notin Cells(snake) /\ p \notin ItemCells(otherItems) }
    \cup { Pt(0, 0) }

\* Fills the wall map from state.walls and places the food.
updateWallMap(s) ==
  LET wm == { w \in s.walls : InBoard(w) }
  IN { [state |-> [s EXCEPT !.food = f], wallMap |-> wm]
       : f \in getRandomEmptyPoint(wm, s.snake, << >>) }

getInitialState(lvl) ==
  [ snake |-> SpawnSnake,
    food |-> Pt(0, 0),
    specialItems |-> << >>,
    walls |-> getLevelWalls(lvl),
    score |-> 0,
    level |-> lvl,
    itemsCollectedInLevel |-> 0,
    isGameOver |-> FALSE,
    steps |-> 0,
    slowEffectSteps |-> 0,
    portalOpen |-> FALSE,
    portalPoint |-> << >> ]

\* new SnakeGame(level): the states the constructor can leave
SnakeGame(lvl) == updateWallMap(getInitialState(lvl))

\* ------------------------------------------------------------ step

moveHead(head, direction) ==
  CASE direction = "UP" -> [head EXCEPT !.y = @ - 1]
    [] direction = "DOWN" -> [head EXCEPT !.y = @ + 1]
    [] direction = "LEFT" -> [head EXCEPT !.x = @ - 1]
    [] direction = "RIGHT" -> [head EXCEPT !.x = @ + 1]

\* Mutant: the death check without the test against the body.
DeathCheck_NoBody(s, wm, head) ==
  \/ head.x < 0 \/ head.x >= GRID_SIZE
  \/ head.y < 0 \/ head.y >= GRID_SIZE
  \/ head \in wm
  \/ s.steps > maxSteps + s.score * BudgetPerScore

\* Mutant: the death check without the step budget.
DeathCheck_NoBudget(s, wm, head) ==
  \/ head.x < 0 \/ head.x >= GRID_SIZE
  \/ head.y < 0 \/ head.y >= GRID_SIZE
  \/ head \in wm
  \/ \E i \in 1..Len(s.snake) : s.snake[i] = head

\* Mutant: the death check with the budget reached one step early (>=).
DeathCheck_BudgetAtLimit(s, wm, head) ==
  \/ head.x < 0 \/ head.x >= GRID_SIZE
  \/ head.y < 0 \/ head.y >= GRID_SIZE
  \/ head \in wm
  \/ \E i \in 1..Len(s.snake) : s.snake[i] = head
  \/ s.steps >= maxSteps + s.score * BudgetPerScore

\* Mutant: the budget test lets one more step through.
DeathCheck_BudgetLate(s, wm, head) ==
  \/ head.x < 0 \/ head.x >= GRID_SIZE
  \/ head.y < 0 \/ head.y >= GRID_SIZE
  \/ head \in wm
  \/ \E i \in 1..Len(s.snake) : s.snake[i] = head
  \/ s.steps > maxSteps + 1 + s.score * BudgetPerScore

\* The death check, on the state whose step counter is already incremented.
DeathCheck(s, wm, head) ==
  \/ head.x < 0 \/ head.x >= GRID_SIZE
  \/ head.y < 0 \/ head.y >= GRID_SIZE
  \/ head \in wm
  \/ \E i \in 1..Len(s.snake) : s.snake[i] = head
  \/ s.steps > maxSteps + s.score * BudgetPerScore

\* Mutant: the level advance that keeps the old level's obstacles.
advanceLevel_KeepsWalls(s) ==
  updateWallMap([s EXCEPT !.level = @ + 1,
                          !.itemsCollectedInLevel = 0,
                          !.portalOpen = FALSE,
                          !.portalPoint = << >>,
                          !.specialItems = << >>,
                          !.steps = 0,
                          !.snake = SpawnSnake])

\* Mutant: the level advance that does not rebuild the wall map.
advanceLevel_StaleMap(s) ==
  { [state |-> r.state, wallMap |-> s.walls]
    : r \in updateWallMap([s EXCEPT !.level = @ + 1,
                                    !.itemsCollectedInLevel = 0,
                                    !.portalOpen = FALSE,
                                    !.portalPoint = << >>,
                                    !.walls = getLevelWalls(s.level + 1),
                                    !.specialItems = << >>,
                                    !.steps = 0,
                                    !.snake = SpawnSnake]) }

\* Mutant: the level advance that ends the slow effect.
advanceLevel_ResetsSlow(s) ==
  updateWallMap([s EXCEPT !.level = @ + 1,
                          !.itemsCollectedInLevel = 0,
                          !.portalOpen = FALSE,
                          !.portalPoint = << >>,
                          !.walls = getLevelWalls(s.level + 1),
                          !.specialItems = << >>,
                          !.steps = 0,
                          !.slowEffectSteps = 0,
                          !.snake = SpawnSnake])

\* advanceLevel(): the states it can leave (the food is placed at random)
advanceLevel(s) ==
  updateWallMap([s EXCEPT !.level = @ + 1,
                          !.itemsCollectedInLevel = 0,
                          !.portalOpen = FALSE,
                          !.portalPoint = << >>,
                          !.walls = getLevelWalls(s.level + 1),
                          !.specialItems = << >>,
                          !.steps = 0,
                          !.snake = SpawnSnake])

\* index of the first item on the head's cell, 0 when there is none
pickedItemIndex(items, head) ==
  IF \E i \in 1..Len(items) : items[i].point = head
  THEN CHOOSE i \in 1..Len(items) :
         /\ items[i].point = head
         /\ \A j \in 1..(i - 1) : items[j].point # head
  ELSE 0

\* specialItems.splice(i, 1)
RemoveAt(seq, i) == SubSeq(seq, 1, i - 1) \o SubSeq(seq, i + 1, Len(seq))

\* Mutant: the cut stops at 3 segments instead of 5.
scissorsCut_Floor3(newSnake) ==
  LET reduceAmount == Max(0, Len(newSnake) - 3)
      k == Min(ScissorsMaxCut, reduceAmount)
  IN SubSeq(newSnake, 1, Len(newSnake) - k)

\* case ItemType.SCISSORS: the pops of newSnake
scissorsCut(newSnake) ==
  LET reduceAmount == Max(0, Len(newSnake) - ScissorsFloor)
      k == Min(ScissorsMaxCut, reduceAmount)
  IN SubSeq(newSnake, 1, Len(newSnake) - k)

\* the switch on the picked item's type
applyItem(s, newSnake, item) ==
  CASE item.type = "GOLD" ->
         [state |-> [s EXCEPT !.score = @ + ScoreGold],
          newSnake |-> newSnake, reward |-> RewardGold]
    [] item.type = "SCISSORS" ->
         [state |-> [s EXCEPT !.score = @ + ScoreScissors],
          newSnake |-> scissorsCut(newSnake), reward |-> RewardScissors]
    [] item.type = "ICE" ->
         [state |-> [s EXCEPT !.score = @ + ScoreIce, !.slowEffectSteps = SlowDuration],
          newSnake |-> newSnake, reward |-> RewardIce]

\* the pickup: the working state, body and reward after it
pickItem(s, newSnake, head) ==
  LET idx == pickedItemIndex(s.specialItems, head)
  IN IF idx # 0
     THEN applyItem([s EXCEPT !.specialItems = RemoveAt(@, idx)], newSnake,
                    s.specialItems[idx])
          @@ [picked |-> s.specialItems[idx].type]
     ELSE [state |-> s, newSnake |-> newSnake, reward |-> RewardStep, picked |-> "NONE"]

\* Mutant: the tail is kept.
popTail_Keeps(newSnake) == newSnake

\* newSnake.pop() of the branch that ate no food
popTail(newSnake) == SubSeq(newSnake, 1, Len(newSnake) - 1)

\* Mutant: the portal opens one goal late.
portalDue_Late(s) == s.itemsCollectedInLevel > LEVEL_GOAL /\ ~s.portalOpen

\* itemsCollectedInLevel >= LEVEL_GOAL && !portalOpen
portalDue(s) == s.itemsCollectedInLevel >= LEVEL_GOAL /\ ~s.portalOpen

\* the food branch: score, progress, portal opening, relocation, or the tail pop
eatFood(w, wm, head) ==
  IF head = w.state.food
  THEN LET s1 == [w.state EXCEPT !.score = @ + 1, !.itemsCollectedInLevel = @ + 1]
           opens == portalDue(s1)
           portals == IF opens
                      THEN { << p >> : p \in getRandomEmptyPoint(wm, w.newSnake, s1.specialItems) }
                      ELSE { s1.portalPoint }
       IN { [state |-> [s1 EXCEPT !.portalOpen = (@ \/ opens), !.portalPoint = pp, !.food = f],
             newSnake |-> w.newSnake, reward |-> RewardFood, picked |-> w.picked,
             ate |-> TRUE, opened |-> opens]
            : pp \in portals, f \in getRandomEmptyPoint(wm, w.newSnake, s1.specialItems) }
  ELSE { [state |-> w.state, newSnake |-> popTail(w.newSnake),
          reward |-> w.reward, picked |-> w.picked, ate |-> FALSE, opened |-> FALSE] }

\* Mutant: an item is spawned whatever the step counter and the number of
\* items on the board.
spawnItem_Uncapped(w, wm) ==
  { [state |-> [w.state EXCEPT !.specialItems =
                   Append(@, [type |-> t, point |-> p,
                              expires |-> w.state.steps + ItemLifetime])]]
    @@ [spawned |-> TRUE] @@ w
    : t \in ItemTypes,
      p \in getRandomEmptyPoint(wm, w.newSnake, w.state.specialItems) }

\* the periodic spawn: the roll may fail; a spawned item is pushed last
spawnItem(w, wm) ==
  IF w.state.steps % SpawnPeriod = 0 /\ Len(w.state.specialItems) < MaxItems
  THEN { w @@ [spawned |-> FALSE] } \cup
       { [state |-> [w.state EXCEPT !.specialItems =
                        Append(@, [type |-> t, point |-> p,
                                   expires |-> w.state.steps + ItemLifetime])]]
         @@ [spawned |-> TRUE] @@ w
         : t \in ItemTypes,
           p \in getRandomEmptyPoint(wm, w.newSnake, w.state.specialItems) }
  ELSE { w @@ [spawned |-> FALSE] }

\* the expiry filter
expireItems(items, steps) == SelectSeq(items, LAMBDA i : i.expires > steps)

\* the filter of expired items and the commit of the new body
commit(w) ==
  [w.state EXCEPT !.specialItems = expireItems(@, w.state.steps),
                  !.snake = w.newSnake]

Outcome(s, wm, r, k, a, pk, sp, op) ==
  [state |-> s, wallMap |-> wm, reward |-> r, kind |-> k,
   ate |-> a, picked |-> pk, spawned |-> sp, opened |-> op]

\* Mutant: the step counter is incremented before the game-over test.
stepGameOver_Counts(s, wm) ==
  { Outcome([s EXCEPT !.steps = @ + 1], wm, RewardGameOver, "over",
            FALSE, "NONE", FALSE, FALSE) }

\* if (this.state.isGameOver) return -20
stepGameOver(s, wm) ==
  { Outcome(s, wm, RewardGameOver, "over", FALSE, "NONE", FALSE, FALSE) }

\* step(direction): every outcome the call can have from state s and wall
\* map wm, with the reward it returns
step(s, wm, direction) ==
  IF s.isGameOver
  THEN stepGameOver(s, wm)
  ELSE
    LET s1 == [s EXCEPT !.steps = @ + 1,
                        !.slowEffectSteps = IF @ > 0 THEN @ - 1 ELSE @]
        head == moveHead(s1.snake[1], direction)
    IN IF DeathCheck(s1, wm, head)
       THEN { Outcome([s1 EXCEPT !.isGameOver = TRUE], wm, RewardDeath, "fatal",
                      FALSE, "NONE", FALSE, FALSE) }
       ELSE IF s1.portalOpen /\ s1.portalPoint # << >> /\ head = s1.portalPoint[1]
       THEN { Outcome(r.state, r.wallMap, RewardPortal, "portal",
                      FALSE, "NONE", FALSE, FALSE) : r \in advanceLevel(s1) }
       ELSE
         LET w1 == pickItem(s1, << head >> \o s1.snake, head)
         IN UNION { { Outcome(commit(w3), wm, w3.reward, "move",
                              w3.ate, w3.picked, w3.spawned, w3.opened)
                      : w3 \in spawnItem(w2, wm) }
                    : w2 \in eatFood(w1, wm, head) }

\* ------------------------------------------------------------ vision

\* The 8 ray directions, in the order of the result.
rayDirs ==
  << Pt(0, -1), Pt(0, 1), Pt(-1, 0), Pt(1, 0),
     Pt(-1, -1), Pt(1, -1), Pt(-1, 1), Pt(1, 1) >>

\* portalOpen && portalPoint ? portalPoint : food
visionTarget(s) ==
  IF s.portalOpen /\ s.portalPoint # << >> THEN s.portalPoint[1] ELSE s.food

\* specialItems.find(si => si.point is curr): the first such item, << >>
\* when there is none
findItem(items, curr) ==
  LET hits == {i \in 1..Len(items) : items[i].point.x = curr.x /\ items[i].point.y = curr.y}
  IN IF hits = {} THEN << >>
     ELSE << items[CHOOSE i \in hits : \A j \in hits : i <= j] >>

\* Mutant: a ray that leaves the board reports no obstacle.
rayEnd_OpenBoard(r, curr) == r

\* After the loop: a ray that stopped outside the board reports an obstacle.
rayEnd(r, curr) ==
  IF ~r.wallFound /\ (curr.x < 0 \/ curr.x >= GRID_SIZE \/ curr.y < 0 \/ curr.y >= GRID_SIZE)
  THEN [r EXCEPT !.wallFound = TRUE]
  ELSE r

\* The scanning loop of one ray from the cell curr, r being the ray's
\* variables (undefined is held as << >>).
RECURSIVE rayLoop(_, _, _, _)
rayLoop(s, wm, curr, r) ==
  IF ~(curr.x >= 0 /\ curr.x < GRID_SIZE /\ curr.y >= 0 /\ curr.y < GRID_SIZE)
  THEN rayEnd(r, curr)
  ELSE LET tg == visionTarget(s)
           specialItem == findItem(s.specialItems, curr)
           seen == specialItem # << >> /\ r.itemFound = << >>
           r1 == [r EXCEPT !.point = curr,
                           !.foodFound = @ \/ (curr.x = tg.x /\ curr.y = tg.y),
                           !.itemFound = IF seen THEN << specialItem[1].type >> ELSE @,
                           !.itemDist = IF seen THEN << r.dist >> ELSE @]
       IN IF \E i \in 1..Len(s.snake) : s.snake[i].x = curr.x /\ s.snake[i].y = curr.y
          THEN rayEnd([r1 EXCEPT !.bodyFound = TRUE], curr)
          ELSE IF curr \in wm
          THEN rayEnd([r1 EXCEPT !.wallFound = TRUE], curr)
          ELSE rayLoop(s, wm, Pt(curr.x + r.direction.x, curr.y + r.direction.y),
                       [r1 EXCEPT !.dist = @ + 1])

\* getVisionExtended(): one record for each of the 8 rays from the head
getVisionExtended(s, wm) ==
  LET head == s.snake[1]
  IN [i \in 1..8 |->
        LET curr == Pt(head.x + rayDirs[i].x, head.y + rayDirs[i].y)
        IN rayLoop(s, wm, curr,
                   [direction |-> rayDirs[i], dist |-> 1, foodFound |-> FALSE,
                    itemFound |-> << >>, itemDist |-> << >>, bodyFound |-> FALSE,
                    wallFound |-> FALSE, point |-> curr])]

\* ------------------------------------------------------------ agent

\* const directions: Direction[] = ['UP', 'DOWN', 'LEFT', 'RIGHT'], indexed from 0
directions(action) ==
  CASE action = 0 -> "UP" [] action = 1 -> "DOWN" [] action = 2 -> "LEFT" [] action = 3 -> "RIGHT"

Abs(a) == IF a < 0 THEN -a ELSE a

\* portalOpen ? portalPoint! : food
target(s) == IF s.portalOpen THEN s.portalPoint[1] ELSE s.food

\* Mutant: a cell holding an item counts as blocked.
isBlocking_Items(s, wm, px, py) ==
  \/ px < 0 \/ px >= GRID_SIZE \/ py < 0 \/ py >= GRID_SIZE
  \/ Pt(px, py) \in wm
  \/ \E i \in 1..Len(s.snake) : s.snake[i].x = px /\ s.snake[i].y = py
  \/ \E i \in 1..Len(s.specialItems) : s.specialItems[i].point = Pt(px, py)

isBlocking(s, wm, px, py) ==
  \/ px < 0 \/ px >= GRID_SIZE \/ py < 0 \/ py >= GRID_SIZE
  \/ isPointWall(wm, px, py)
  \/ \E i \in 1..Len(s.snake) : s.snake[i].x = px /\ s.snake[i].y = py

Bit(b) == IF b THEN "1" ELSE "0"

\* The fingerprint, as the tuple of the characters of the returned string.
getStateString(s, wm) ==
  LET head == s.snake[1]
      tg == target(s)
      tX == IF tg.x < head.x THEN "L" ELSE IF tg.x > head.x THEN "R" ELSE "C"
      tY == IF tg.y < head.y THEN "U" ELSE IF tg.y > head.y THEN "D" ELSE "C"
      heading ==
        IF Len(s.snake) > 1
        THEN LET neck == s.snake[2]
             IN IF head.x > neck.x THEN "R"
                ELSE IF head.x < neck.x THEN "L"
                ELSE IF head.y > neck.y THEN "D"
                ELSE IF head.y < neck.y THEN "U"
                ELSE "N"
        ELSE "N"
  IN << tX, tY,
        Bit(isBlocking(s, wm, head.x, head.y - 1)),
        Bit(isBlocking(s, wm, head.x, head.y + 1)),
        Bit(isBlocking(s, wm, head.x - 1, head.y)),
        Bit(isBlocking(s, wm, head.x + 1, head.y)),
        Bit(isBlocking(s, wm, head.x, head.y - 2)),
        Bit(isBlocking(s, wm, head.x, head.y + 2)),
        Bit(isBlocking(s, wm, head.x - 2, head.y)),
        Bit(isBlocking(s, wm, head.x + 2, head.y)),
        heading >>

\* Mutant: a missing entry is created as [0,0,0,1].
getQValues_Seeded(qt, key) ==
  IF key \in DOMAIN qt THEN qt ELSE qt @@ (key :> << 0, 0, 0, 1 >>)

\* getQValues(state): the table after the call (the entry is created as
\* [0,0,0,0] when missing); the returned vector is the table's entry.
getQValues(qt, key) ==
  IF key \in DOMAIN qt THEN qt ELSE qt @@ (key :> << 0, 0, 0, 0 >>)

\* Mutant: the loop compares with >=, so the last index holding the maximum wins.
RECURSIVE argmaxLoop_LastWins(_, _, _, _)
argmaxLoop_LastWins(qValues, i, maxIdx, maxVal) ==
  IF i >= 4 THEN maxIdx
  ELSE IF qValues[i + 1] >= maxVal
       THEN argmaxLoop_LastWins(qValues, i + 1, i, qValues[i + 1])
       ELSE argmaxLoop_LastWins(qValues, i + 1, maxIdx, maxVal)

\* the loop of chooseAction: the first index holding the maximum
RECURSIVE argmaxLoop(_, _, _, _)
argmaxLoop(qValues, i, maxIdx, maxVal) ==
  IF i >= 4 THEN maxIdx
  ELSE IF qValues[i + 1] > maxVal
       THEN argmaxLoop(qValues, i + 1, i, qValues[i + 1])
       ELSE argmaxLoop(qValues, i + 1, maxIdx, maxVal)

\* 1.0 in the units of epsilon
EpsilonOne == 10000 * 10000
Million == 1000 * 1000

\* chooseAction(state): Math.random() is in [0,1), so the random branch can
\* be taken when epsilon > 0 and the greedy one when epsilon < 1.
chooseAction(qt, eps, key) ==
  (IF eps > 0
   THEN { [action |-> a, explore |-> TRUE, qTable |-> qt] : a \in 0..3 }
   ELSE {})
  \cup
  (IF eps < EpsilonOne
   THEN LET qt1 == getQValues(qt, key)
        IN { [action |-> argmaxLoop(qt1[key], 1, 0, qt1[key][1]),
              explore |-> FALSE, qTable |-> qt1] }
   ELSE {})

Manhattan(p, q) == Abs(p.x - q.x) + Abs(p.y - q.y)

\* Proximity shaping: the distance to the target held before the move
\* against the distance from the new head to that same target.
shapedReward(reward, over, distBefore, distAfter) ==
  IF over THEN reward
  ELSE IF distAfter < distBefore THEN reward + ShapingBonus
  ELSE IF distAfter > distBefore THEN reward - ShapingBonus
  ELSE reward

MaxOf(q) == Max(Max(q[1], q[2]), Max(q[3], q[4]))

\* Mutant: the next fingerprint's maximum is used on a finished episode too.
tdUpdate_Bootstraps(cur, reward, over, maxNextQ) ==
  cur + (alpha * (reward * 100 + (gamma * maxNextQ) \div 100 - cur)) \div 100

\* currentQValues[action] += alpha * (reward + gamma * (over ? 0 : maxNextQ)
\*                                    - currentQValues[action])
\* with Q values in units of 1e-4 and the reward given in hundredths.
tdUpdate(cur, reward, over, maxNextQ) ==
  cur + (alpha * (reward * 100 + (IF over THEN 0 ELSE (gamma * maxNextQ) \div 100) - cur)) \div 100

\* if (epsilon > epsilonMin) epsilon *= epsilonDecay
decayEpsilon(eps) ==
  IF eps > epsilonMin
  THEN eps - (eps * (Million - epsilonDecay)) \div Million
  ELSE eps

\* update(): every outcome of one decision on a live episode
update(s, wm, qt, eps) ==
  LET key == getStateString(s, wm)
      headBefore == s.snake[1]
      tg == target(s)
      distBefore == Manhattan(headBefore, tg)
  IN UNION {
       { LET over == o.state.isGameOver
             reward == shapedReward(o.reward, over, distBefore,
                                    Manhattan(o.state.snake[1], tg))
             nextState == getStateString(o.state, o.wallMap)
             qt1 == getQValues(c.qTable, nextState)
             maxNextQ == MaxOf(qt1[nextState])
             qt2 == getQValues(qt1, key)
             q == tdUpdate(qt2[key][c.action + 1], reward, over, maxNextQ)
         IN [ out |-> o, reward |-> reward, action |-> c.action, explore |-> c.explore,
              qTable |-> [qt2 EXCEPT ![key][c.action + 1] = q],
              epsilon |-> decayEpsilon(eps) ]
         : o \in step(s, wm, directions(c.action)) }
       : c \in chooseAction(qt, eps, key) }

\* ------------------------------------------------------------ storage

\* Texts are sequences of one-character strings.  NaN is held as -1: the
\* values it stands in for (epsilon, totalStepsEver) are never negative,
\* and every comparison the code makes with it (epsilon > epsilonMin,
\* Math.random() < epsilon) is false for -1 as it is for NaN.
NaN == 0 - 1

DigitChars == << "0", "1", "2", "3", "4", "5", "6", "7", "8", "9" >>
isDigit(c) == \E d \in 1..10 : DigitChars[d] = c
digitValue(c) == (CHOOSE d \in 1..10 : DigitChars[d] = c) - 1

\* the decimal digits of a natural number
RECURSIVE digitsOf(_)
digitsOf(n) ==
  IF n < 10 THEN << DigitChars[n + 1] >>
  ELSE digitsOf(n \div 10) \o << DigitChars[(n % 10) + 1] >>

RECURSIVE pow10(_)
pow10(k) == IF k = 0 THEN 1 ELSE 10 * pow10(k - 1)

\* the digits of f written with k places, without the trailing zeros
RECURSIVE fractionDigits(_, _)
fractionDigits(f, k) ==
  IF f = 0 THEN << >>
  ELSE << DigitChars[(f \div pow10(k - 1)) + 1] >> \o fractionDigits(f % pow10(k - 1), k - 1)

\* Mutant: the text keeps two places of the fraction only.
numberToString_TwoPlaces(v, places) ==
  LET a == IF v < 0 THEN -v ELSE v
      f == IF places >= 2 THEN (a % pow10(places)) \div pow10(places - 2) ELSE 0
  IN (IF v < 0 THEN << "-" >> ELSE << >>)
     \o digitsOf(a \div pow10(places))
     \o (IF f = 0 THEN << >> ELSE << "." >> \o fractionDigits(f, 2))

\* Number.prototype.toString / JSON.stringify of a finite number: v is the
\* number in units of 10^-places (0 places for an integer)
numberToString(v, places) ==
  LET a == IF v < 0 THEN -v ELSE v
      f == a % pow10(places)
  IN (IF v < 0 THEN << "-" >> ELSE << >>)
     \o digitsOf(a \div pow10(places))
     \o (IF f = 0 THEN << >> ELSE << "." >> \o fractionDigits(f, places))

\* the number of digits text holds from position i on
RECURSIVE digitRun(_, _)
digitRun(text, i) ==
  IF i <= Len(text) /\ isDigit(text[i]) THEN 1 + digitRun(text, i + 1) ELSE 0

\* the value of the n digits of text from position i on, continuing acc
RECURSIVE digitsValue(_, _, _, _)
digitsValue(text, i, n, acc) ==
  IF n = 0 THEN acc
  ELSE digitsValue(text, i + 1, n - 1, acc * 10 + digitValue(text[i]))

\* parseInt(text, 10): an optional sign and the leading digits; NaN when
\* there is no digit (the texts read here carry no sign)
parseInt(text) ==
  LET n == digitRun(text, 1)
  IN IF n = 0 THEN NaN ELSE digitsValue(text, 1, n, 0)

\* parseFloat(text) / the number of a JSON text, in units of 10^-places:
\* an optional "-", the leading digits, and after a "." the digits of the
\* fraction; what follows is ignored; NaN when no digit leads
parseFloat(text, places) ==
  LET neg == Len(text) >= 1 /\ text[1] = "-"
      i0 == IF neg THEN 2 ELSE 1
      n == digitRun(text, i0)
      dot == i0 + n <= Len(text) /\ text[i0 + n] = "."
      m == IF dot THEN digitRun(text, i0 + n + 1) ELSE 0
      k == Min(m, places)
      ip == digitsValue(text, i0, n, 0)
      fp == digitsValue(text, i0 + n + 1, k, 0) * pow10(places - k)
      a == ip * pow10(places) + fp
  IN IF n = 0 /\ m = 0 THEN NaN
     ELSE IF neg THEN -a ELSE a

\* The text of a value table: JSON.stringify(Object.fromEntries(qTable)),
\* an object whose members carry a key and an array of number texts.
stringifyTable(qt) ==
  [kind |-> "object",
   members |-> { [key |-> k,
                  value |-> [i \in 1..Len(qt[k]) |-> numberToString(qt[k][i], 4)]]
                 : k \in DOMAIN qt }]

\* localStorage with none of the three keys set
EmptyStorage == [qtable |-> << >>, epsilon |-> << >>, steps |-> << >>]

\* saveToStorage(): the three items it sets
saveToStorage(qt, eps, n) ==
  [qtable |-> << stringifyTable(qt) >>,
   epsilon |-> << numberToString(eps, 8) >>,
   steps |-> << numberToString(n, 0) >>]

\* JSON.parse(savedTable) followed by new Map(Object.entries(obj)) throws
\* on a text that is no JSON and on the JSON null
parseThrows(text) == text.kind \in {"garbage", "null"}

\* new Map(Object.entries(JSON.parse(text))): every member becomes an
\* entry, whatever its key and the length of its array
parseTable(text) ==
  [k \in {m.key : m \in text.members} |->
     LET m == CHOOSE m \in text.members : m.key = k
     IN [i \in 1..Len(m.value) |-> parseFloat(m.value[i], 4)]]

\* loadFromStorage(): the table, epsilon and totalStepsEver it leaves in an
\* agent holding qt, eps and n (an item that is null or "" is skipped, a
\* throw of the table's parse is caught)
loadFromStorage(qt, eps, n, st) ==
  [qTable |-> IF st.qtable = << >> \/ parseThrows(st.qtable[1]) THEN qt
              ELSE parseTable(st.qtable[1]),
   epsilon |-> IF st.epsilon = << >> \/ st.epsilon[1] = << >> THEN eps
               ELSE parseFloat(st.epsilon[1], 8),
   totalStepsEver |-> IF st.steps = << >> \/ st.steps[1] = << >> THEN n
                      ELSE parseInt(st.steps[1])]

\* ------------------------------------------------------------ state

VARIABLES
  state,           \* SnakeGame.state (GameState) of the agent's game
  wallMap,         \* SnakeGame.wallMap, as the set of cells marked true
  qTable,          \* QLearningAgent.qTable: fingerprint -> 4 values (units of 1e-4)
  epsilon,         \* QLearningAgent.epsilon (units of 1e-8)
  totalReward,     \* QLearningAgent.totalReward (hundredths)
  totalStepsEver,  \* QLearningAgent.totalStepsEver
  storage,         \* localStorage: the items qs_v6_qtable, qs_v6_epsilon, qs_v6_steps
  last,            \* the last call: its direction, its reward (raw: as step
                   \* returned it), and what it did
  moves            \* calls made so far

gameVars == << state, wallMap >>
agentVars == << qTable, epsilon, totalReward, totalStepsEver >>
vars == << state, wallMap, qTable, epsilon, totalReward, totalStepsEver, storage,
          last, moves >>

\* A vertical body with its head at (15,15) and n segments.
Column(n) == [i \in 1..n |-> Pt(15, 14 + i)]

\* A body of 12 segments coiled inside the cells 12..15 x 15..17, head (15,15).
Coil ==
  << Pt(15, 15), Pt(15, 16), Pt(15, 17), Pt(14, 17), Pt(13, 17), Pt(12, 17),
     Pt(12, 16), Pt(13, 16), Pt(14, 16), Pt(14, 15), Pt(13, 15), Pt(12, 15) >>

\* An episode of level lvl after t steps with the given body, score and
\* progress, no item on the board, and the food on any cell it can be on.
MidGame(lvl, body, t, sc, ic) ==
  updateWallMap([getInitialState(lvl) EXCEPT !.snake = body, !.steps = t,
                                             !.score = sc,
                                             !.itemsCollectedInLevel = ic])

\* An item spawned at the spawn tick t0 (it expires ItemLifetime steps later).
ItemAt(type, p, t0) == [type |-> type, point |-> p, expires |-> t0 + ItemLifetime]

\* An episode of level 1 after t steps with the given body and the given
\* items on the board, the food on a cell that holds no item.
MidGameItems(body, t, items) ==
  { [state |-> [g.state EXCEPT !.specialItems = items], wallMap |-> g.wallMap]
    : g \in { h \in MidGame(1, body, t, 0, 0) : h.state.food \notin ItemCells(items) } }

\* A level-1 episode of 100 steps whose 10th goal has opened the portal on
\* (15,14), the cell above the head, 13 steps after a slowing item was
\* consumed (score 10 + 2, slow-effect counter 20 - 13).
SlowPortalGame ==
  { [state |-> [g.state EXCEPT !.portalOpen = TRUE, !.portalPoint = << Pt(15, 14) >>,
                               !.slowEffectSteps = SlowDuration - 13],
     wallMap |-> g.wallMap]
    : g \in { h \in MidGame(1, Coil \o << Pt(11, 15) >>, 100, LEVEL_GOAL + ScoreIce,
                             LEVEL_GOAL)
                : h.state.food # Pt(15, 14) } }

\* The episodes a behaviour starts from.  Besides the constructor's states
\* at levels 1..3 these are states of play the constructor's state leads to
\* (the head's parity x+y agrees with the step counter's, the body has
\* 3 + progress segments, the score is the food eaten):
\*   - one step before the first spawn tick, bodies of 3, 5 and 8 segments;
\*   - one food short of the level goal, at levels 1 and 3;
\*   - one and two steps before the step budget runs out;
\*   - next to the board's corner (0,0), one step before the second spawn
\*     tick (step 150);
\*   - with the portal open next to the head and a slow effect running;
\*   - one step before the third spawn tick (step 225), with the item of the
\*     first tick (75) next to the head, alone or with the item of the
\*     second tick (150).
StartStates ==
  UNION { SnakeGame(lvl) : lvl \in 1..3 }
  \cup UNION { MidGame(1, Column(n), SpawnPeriod - 1, n - 3, n - 3) : n \in {3, 5, 8} }
  \cup UNION { MidGame(lvl, Coil, 40, LEVEL_GOAL - 1, LEVEL_GOAL - 1) : lvl \in {1, 3} }
  \cup MidGame(1, << Pt(15, 14), Pt(15, 15), Pt(15, 16) >>, maxSteps - 1, 0, 0)
  \cup MidGame(1, SpawnSnake, maxSteps, 0, 0)
  \cup MidGame(1, << Pt(0, 1), Pt(0, 2), Pt(0, 3) >>, 2 * SpawnPeriod - 1, 0, 0)
  \cup SlowPortalGame
  \cup MidGameItems(SpawnSnake, 3 * SpawnPeriod - 1,
                    << ItemAt("GOLD", Pt(15, 14), SpawnPeriod) >>)
  \cup MidGameItems(SpawnSnake, 3 * SpawnPeriod - 1,
                    << ItemAt("ICE", Pt(15, 14), SpawnPeriod),
                       ItemAt("SCISSORS", Pt(16, 15), 2 * SpawnPeriod) >>)

NoCall ==
  [op |-> "init", dir |-> "NONE", reward |-> 0, kind |-> "init", ate |-> FALSE,
   picked |-> "NONE", spawned |-> FALSE, opened |-> FALSE, preLen |-> 0,
   preScore |-> 0, action |-> -1, explore |-> FALSE, raw |-> 0]

\* new QLearningAgent() with nothing stored: empty table, epsilon 1.0
AgentInit ==
  /\ qTable = << >>
  /\ epsilon = epsilonStart
  /\ totalReward = 0
  /\ totalStepsEver = 0

Init ==
  /\ \E g \in StartStates : state = g.state /\ wallMap = g.wallMap
  /\ AgentInit
  /\ storage = EmptyStorage
  /\ last = NoCall
  /\ moves = 0

\* game.step(direction), called by anyone holding the game
StepCall(d) ==
  /\ moves < MaxMoves
  /\ \E o \in step(state, wallMap, d) :
       /\ state' = o.state
       /\ wallMap' = o.wallMap
       /\ last' = [op |-> "step", dir |-> d, reward |-> o.reward, kind |-> o.kind,
                   ate |-> o.ate, picked |-> o.picked, spawned |-> o.spawned,
                   opened |-> o.opened, preLen |-> Len(state.snake),
                   preScore |-> state.score, action |-> -1, explore |-> FALSE,
                   raw |-> o.reward]
  /\ moves' = moves + 1
  /\ UNCHANGED << agentVars, storage >>

Next == \E d \in Directions : StepCall(d)

Spec == Init /\ [][Next]_vars

\* agent.update(): one decision; nothing happens on a finished episode
Update ==
  /\ moves < MaxMoves
  /\ moves' = moves + 1
  /\ UNCHANGED storage
  /\ IF state.isGameOver
     THEN /\ UNCHANGED << gameVars, agentVars >>
          /\ last' = [NoCall EXCEPT !.op = "update", !.kind = "over"]
     ELSE \E u \in update(state, wallMap, qTable, epsilon) :
            /\ state' = u.out.state
            /\ wallMap' = u.out.wallMap
            /\ qTable' = u.qTable
            /\ epsilon' = u.epsilon
            /\ totalReward' = totalReward + u.reward
            /\ totalStepsEver' = totalStepsEver + 1
            /\ last' = [op |-> "update", dir |-> directions(u.action),
                        reward |-> u.reward, kind |-> u.out.kind, ate |-> u.out.ate,
                        picked |-> u.out.picked, spawned |-> u.out.spawned,
                        opened |-> u.out.opened, preLen |-> Len(state.snake),
                        preScore |-> state.score, action |-> u.action,
                        explore |-> u.explore, raw |-> u.out.reward]

\* Mutant: reset() builds the new game at the default level 1.
Reset_Level1 ==
  /\ moves < MaxMoves
  /\ moves' = moves + 1
  /\ \E g \in SnakeGame(1) : state' = g.state /\ wallMap' = g.wallMap
  /\ totalReward' = 0
  /\ UNCHANGED << qTable, epsilon, totalStepsEver, storage >>
  /\ last' = [NoCall EXCEPT !.op = "reset", !.kind = "reset"]

\* agent.reset(): a new game at the level reached, the episode's reward cleared
Reset ==
  /\ moves < MaxMoves
  /\ moves' = moves + 1
  /\ \E g \in SnakeGame(state.level) : state' = g.state /\ wallMap' = g.wallMap
  /\ totalReward' = 0
  /\ UNCHANGED << qTable, epsilon, totalStepsEver, storage >>
  /\ last' = [NoCall EXCEPT !.op = "reset", !.kind = "reset"]

\* agent.getCurrentStateQValues(): the entry of the current fingerprint is
\* read, and created when missing
GetCurrentStateQValues ==
  /\ moves < MaxMoves
  /\ moves' = moves + 1
  /\ LET key == getStateString(state, wallMap)
     IN /\ qTable' = getQValues(qTable, key)
        /\ last' = [NoCall EXCEPT !.op = "getCurrentStateQValues",
                                  !.kind = IF key \in DOMAIN qTable THEN "found"
                                           ELSE "created"]
  /\ UNCHANGED << gameVars, epsilon, totalReward, totalStepsEver, storage >>

\* agent.chooseAction(agent.getStateString()): the greedy branch reads the
\* entry of the fingerprint, and creates it when missing
ChooseAction ==
  /\ moves < MaxMoves
  /\ moves' = moves + 1
  /\ \E c \in chooseAction(qTable, epsilon, getStateString(state, wallMap)) :
       /\ qTable' = c.qTable
       /\ last' = [NoCall EXCEPT !.op = "chooseAction", !.kind = "choice",
                                 !.action = c.action, !.explore = c.explore]
  /\ UNCHANGED << gameVars, epsilon, totalReward, totalStepsEver, storage >>

\* The agent as constructed: its game is new SnakeGame() at level 1.
InitAgent ==
  /\ \E g \in SnakeGame(1) : state = g.state /\ wallMap = g.wallMap
  /\ AgentInit
  /\ storage = EmptyStorage
  /\ last = NoCall
  /\ moves = 0

NextAgent ==
  \/ moves < MaxDecisions /\ Update
  \/ moves < MaxDecisions /\ Reset
  \/ moves < MaxDecisions /\ \E d \in Directions : StepCall(d)
  \/ moves < MaxDecisions /\ GetCurrentStateQValues
  \/ moves < MaxDecisions /\ ChooseAction

SpecAgent == InitAgent /\ [][NextAgent]_vars

\* epsilon after 1535054 decisions from 1.0: 0.999997^1535054 is
\* 0.0100000127..., the last value of the decay above epsilonMin.
EpsilonNearFloor == epsilonMin + 1
TrainedSteps == 1535054

\* The fingerprint of a fresh episode (head (15,15), heading up, the body
\* below the head) whose goal is above the head, to its left (tX = "L"),
\* to its right ("R") or in its column ("C").
FreshKey(tX) == << tX, "U", "0", "1", "0", "0", "0", "1", "0", "0", "U" >>

\* A value table holding learned values for the fresh episode's fingerprints.
TrainedTable ==
  (FreshKey("C") :> << 15000, 15000, -4000, 15000 >>)
  @@ (FreshKey("L") :> << -3000, 12000, 12000, 7000 >>)
  @@ (FreshKey("R") :> << -5000, -9000, 2000, 2000 >>)

\* A level-1 episode whose 10th goal has opened the portal on (15,14), the
\* cell above the head.
PortalGame ==
  { [state |-> [g.state EXCEPT !.portalOpen = TRUE, !.portalPoint = << Pt(15, 14) >>],
     wallMap |-> g.wallMap]
    : g \in { h \in MidGame(1, Coil \o << Pt(11, 15) >>, 60, LEVEL_GOAL, LEVEL_GOAL)
                : h.state.food # Pt(15, 14) } }

\* The episodes the trained agent is taken up in: a new level-1 episode,
\* one of 230 steps with the items of the spawn ticks 150 and 225 on the
\* board, or one with the portal open next to the head.
TrainedGames ==
  SnakeGame(1)
  \cup PortalGame
  \cup MidGameItems(SpawnSnake, 3 * SpawnPeriod + 5,
                    << ItemAt("ICE", Pt(15, 14), 2 * SpawnPeriod),
                       ItemAt("SCISSORS", Pt(16, 15), 3 * SpawnPeriod) >>)

\* The agent after TrainedSteps decisions.
InitTrained ==
  /\ \E g \in TrainedGames : state = g.state /\ wallMap = g.wallMap
  /\ qTable = TrainedTable
  /\ epsilon = EpsilonNearFloor
  /\ totalReward = 0
  /\ totalStepsEver = TrainedSteps
  /\ storage = EmptyStorage
  /\ last = NoCall
  /\ moves = 0

SpecTrained == InitTrained /\ [][NextAgent]_vars

\* qAgent.update() on the game g, the episode's reward so far being tr
Decide(g, tr) ==
  IF g.state.isGameOver
  THEN /\ state' = g.state /\ wallMap' = g.wallMap
       /\ totalReward' = tr
       /\ UNCHANGED << qTable, epsilon, totalStepsEver >>
       /\ last' = [NoCall EXCEPT !.op = "iterate", !.kind = "over"]
  ELSE \E u \in update(g.state, g.wallMap, qTable, epsilon) :
         /\ state' = u.out.state
         /\ wallMap' = u.out.wallMap
         /\ qTable' = u.qTable
         /\ epsilon' = u.epsilon
         /\ totalReward' = tr + u.reward
         /\ totalStepsEver' = totalStepsEver + 1
         /\ last' = [op |-> "iterate", dir |-> directions(u.action),
                     reward |-> u.reward, kind |-> u.out.kind, ate |-> u.out.ate,
                     picked |-> u.out.picked, spawned |-> u.out.spawned,
                     opened |-> u.out.opened, preLen |-> Len(g.state.snake),
                     preScore |-> g.state.score, action |-> u.action,
                     explore |-> u.explore, raw |-> u.out.reward]

\* Mutant: the loop body without the reset of a finished episode.
HostIteration_NoReset ==
  /\ moves < MaxMoves
  /\ moves' = moves + 1
  /\ UNCHANGED storage
  /\ Decide([state |-> state, wallMap |-> wallMap], totalReward)

\* One iteration of the host's decision loop: a finished episode is reset,
\* then the agent makes one decision.
HostIteration ==
  /\ moves < MaxMoves
  /\ moves' = moves + 1
  /\ UNCHANGED storage
  /\ IF state.isGameOver
     THEN \E g \in SnakeGame(state.level) : Decide(g, 0)
     ELSE Decide([state |-> state, wallMap |-> wallMap], totalReward)

NextHost == moves < MaxDecisions /\ HostIteration

\* The host's loop driving the trained agent.
SpecHost == InitTrained /\ [][NextHost]_vars

\* Level-1 episodes that have 1, 2 or 3 steps of their budget left.
BudgetGames ==
  MidGame(1, SpawnSnake, maxSteps, 0, 0)
  \cup MidGame(1, << Pt(15, 14), Pt(15, 15), Pt(15, 16) >>, maxSteps - 1, 0, 0)
  \cup MidGame(1, Column(5), maxSteps + 2 * BudgetPerScore - 2, 2, 2)

InitBudget ==
  /\ \E g \in BudgetGames : state = g.state /\ wallMap = g.wallMap
  /\ AgentInit
  /\ storage = EmptyStorage
  /\ last = NoCall
  /\ moves = 0

\* The game is stepped again and again: the host's loop makes a decision,
\* and with it a step, in every iteration.
SpecBudget == InitBudget /\ [][Next]_vars /\ WF_vars(Next)

\* What localStorage can hold that no saveToStorage call wrote: a table
\* item that is no JSON text, the JSON text null, a JSON array [[1,2,3,4]],
\* an object {"x": [1,2]} whose array has 2 elements, and the texts "abc"
\* as exploration rate and as step count.
BadStores ==
  { [EmptyStorage EXCEPT !.qtable = << [kind |-> "garbage", members |-> {}] >>],
    [EmptyStorage EXCEPT !.qtable = << [kind |-> "null", members |-> {}] >>],
    [EmptyStorage EXCEPT !.qtable =
       << [kind |-> "array",
           members |-> { [key |-> << "0" >>,
                          value |-> << << "1" >>, << "2" >>, << "3" >>, << "4" >> >>] }] >>],
    [EmptyStorage EXCEPT !.qtable =
       << [kind |-> "object",
           members |-> { [key |-> << "x" >>, value |-> << << "1" >>, << "2" >> >>] }] >>],
    [EmptyStorage EXCEPT !.epsilon = << << "a", "b", "c" >> >>],
    [EmptyStorage EXCEPT !.steps = << << "a", "b", "c" >> >>] }

\* agent.saveToStorage(), as the host's timer calls it.  (What an agent
\* whose epsilon or step count is NaN goes on to do is not followed.)
SaveToStorage ==
  /\ moves < MaxMoves
  /\ epsilon # NaN /\ totalStepsEver # NaN
  /\ moves' = moves + 1
  /\ storage' = saveToStorage(qTable, epsilon, totalStepsEver)
  /\ last' = [NoCall EXCEPT !.op = "save", !.kind = "save"]
  /\ UNCHANGED << gameVars, agentVars >>

\* new QLearningAgent(), as a page load makes it: the default fields, a
\* new level-1 game, then loadFromStorage()
NewAgent ==
  /\ moves < MaxMoves
  /\ moves' = moves + 1
  /\ LET a == loadFromStorage(<< >>, epsilonStart, 0, storage)
     IN /\ qTable' = a.qTable
        /\ epsilon' = a.epsilon
        /\ totalStepsEver' = a.totalStepsEver
  /\ totalReward' = 0
  /\ \E g \in SnakeGame(1) : state' = g.state /\ wallMap' = g.wallMap
  /\ last' = [NoCall EXCEPT !.op = "construct", !.kind = "construct"]
  /\ UNCHANGED storage

\* The agent, new or trained, on a new level-1 episode, with nothing
\* stored or with one of BadStores in localStorage.
InitStorage ==
  /\ \E g \in SnakeGame(1) : state = g.state /\ wallMap = g.wallMap
  /\ \/ AgentInit
     \/ /\ qTable = TrainedTable /\ epsilon = EpsilonNearFloor
        /\ totalReward = 0 /\ totalStepsEver = TrainedSteps
  /\ storage \in { EmptyStorage } \cup BadStores
  /\ last = NoCall
  /\ moves = 0

NextStorage ==
  \/ moves < MaxDecisions /\ epsilon # NaN /\ totalStepsEver # NaN /\ Update
  \/ moves < MaxDecisions /\ Reset
  \/ moves < MaxDecisions /\ SaveToStorage
  \/ moves < MaxDecisions /\ NewAgent

SpecStorage == InitStorage /\ [][NextStorage]_vars

\* ------------------------------------------------------------ claims

\* The call of a step: a step(direction) call made from the current state.
Called == last'.op = "step" /\ moves' = moves + 1

\* The candidate head of the call being made.
CandHead == moveHead(state.snake[1], last'.dir)

\* The fatal condition as the claims word it, on the state before the call.
FatalCond ==
  \/ ~InBoard(CandHead)
  \/ CandHead \in state.walls
  \/ \E i \in 1..Len(state.snake) : state.snake[i] = CandHead
  \/ state.steps + 1 > 3000 + state.score * 50

OnPortal == state.portalOpen /\ state.portalPoint = << CandHead >>

\* A call that moves the snake: from a live episode, not fatal, not onto the portal.
Moves == Called /\ ~state.isGameOver /\ ~FatalCond /\ ~OnPortal

\* C1: in every reachable state, terminal ones included, no two body
\* segments share a cell and every body cell is on the board and is not an
\* obstacle.
C1_BodyValid ==
  /\ \A i, j \in 1..Len(state.snake) : i # j => state.snake[i] # state.snake[j]
  /\ \A i \in 1..Len(state.snake) :
       InBoard(state.snake[i]) /\ state.snake[i] \notin state.walls

\* C1 witness: an episode that ended by a fatal step after a level advance.
C1_Witness ==
  /\ state.isGameOver /\ last.kind = "fatal"
  /\ state.level = 4 /\ state.score >= LEVEL_GOAL

\* C2: on a finished episode every step(direction) call returns -20 and
\* every step or update call leaves the episode state (every field of it,
\* and the wall map) as it was, however often they are repeated.
C2_TerminalIdempotent ==
  [][ (state.isGameOver /\ moves' = moves + 1 /\ last'.op \in {"step", "update"}) =>
        /\ state' = state
        /\ wallMap' = wallMap
        /\ last'.op = "step" => last'.reward = -2000 ]_vars

\* C2 witness: an update made on a finished episode after an earlier call
\* on the finished episode.
C2_Witness ==
  /\ state.isGameOver /\ last.op = "update" /\ last.kind = "over"
  /\ moves >= 3

\* C3: a step from a live episode ends it and returns -100 exactly when
\* the candidate head is off the board, an obstacle, a body segment, or the
\* incremented step counter exceeds 3000 + 50*score; such a step leaves
\* body, goal, items, portal, score, level and progress as they were.
C3_FatalIff ==
  [][ (Called /\ ~state.isGameOver) =>
        /\ state'.isGameOver <=> FatalCond
        /\ (last'.reward = -10000) <=> FatalCond
        /\ FatalCond =>
             /\ state'.snake = state.snake
             /\ state'.food = state.food
             /\ state'.specialItems = state.specialItems
             /\ state'.portalOpen = state.portalOpen
             /\ state'.portalPoint = state.portalPoint
             /\ state'.score = state.score
             /\ state'.level = state.level
             /\ state'.itemsCollectedInLevel = state.itemsCollectedInLevel ]_vars

\* C3 witness: an episode ended by the step budget alone (the candidate
\* head of the fatal call was a free cell of the board).
C3_Witness ==
  /\ state.isGameOver /\ last.kind = "fatal" /\ last.reward = -10000
  /\ state.steps > 3000 + state.score * 50
  /\ LET c == moveHead(state.snake[1], last.dir)
     IN InBoard(c) /\ c \notin state.walls /\ c \notin Cells(state.snake)

\* C4: a moving step whose candidate head is not the goal and not an item
\* puts the candidate head in front of the old body without its last
\* segment, keeps length and score and returns -0.05; UP from the fresh
\* level-1 episode gives head (15,14) and a live episode.
C4_PlainMove ==
  [][ /\ (Moves /\ CandHead # state.food /\ CandHead \notin ItemCells(state.specialItems)) =>
           /\ state'.snake = << CandHead >> \o SubSeq(state.snake, 1, Len(state.snake) - 1)
           /\ Len(state'.snake) = Len(state.snake)
           /\ state'.score = state.score
           /\ last'.reward = -5
           /\ ~state'.isGameOver
      /\ (Called /\ last'.dir = "UP" /\ state.level = 1 /\ state.steps = 0
            /\ state.snake = << Pt(15, 15), Pt(15, 16), Pt(15, 17) >> /\ state.score = 0) =>
           /\ state'.snake[1] = Pt(15, 14)
           /\ ~state'.isGameOver ]_vars

\* C4 witness: the fresh level-1 episode after one plain step UP.
C4_Witness ==
  /\ state.level = 1 /\ state.steps = 1 /\ last.dir = "UP" /\ last.reward = -5
  /\ state.snake = << Pt(15, 14), Pt(15, 15), Pt(15, 16) >>
  /\ ~state.isGameOver /\ state.food # Pt(15, 14)

\* The type of the item the call picks up ("NONE" when there is none).
PickedType ==
  LET idx == pickedItemIndex(state.specialItems, CandHead)
  IN IF idx = 0 THEN "NONE" ELSE state.specialItems[idx].type

\* C5 (as claimed), for goals off the fallback cell (0,0): every step that
\* consumes the goal raises the score by exactly 1, and the committed body
\* is one longer than before, or as long as before when a cutting item is
\* consumed in the same step.
C5_GoalScoreLength ==
  [][ (Moves /\ CandHead = state.food /\ state.food # Pt(0, 0)) =>
        /\ state'.score = state.score + 1
        /\ IF PickedType = "SCISSORS"
           THEN Len(state'.snake) = Len(state.snake)
           ELSE Len(state'.snake) = Len(state.snake) + 1 ]_vars

\* C6 (as claimed): a step that consumes a cutting item shortens the body
\* by at most 3 segments and leaves at least 5 segments when there were at
\* least 5 before.
C6_ScissorsFloor ==
  [][ (Moves /\ PickedType = "SCISSORS") =>
        /\ Len(state'.snake) >= Len(state.snake) - 3
        /\ Len(state.snake) >= 5 => Len(state'.snake) >= 5 ]_vars

\* C7 (as claimed), for goals off the fallback cell (0,0): in every
\* reachable state the goal cell differs from the cell of every active item.
C7_GoalItemsDistinct ==
  state.food # Pt(0, 0) =>
    \A i \in 1..Len(state.specialItems) : state.specialItems[i].point # state.food

\* C8 (as claimed), for relocations that do not end on the fallback cell
\* (0,0): a step that lands on the goal returns 30 and leaves the goal on a
\* cell of the board that is no obstacle, no cell of the committed body and
\* no cell of an active item.
C8_GoalRelocated ==
  [][ (Called /\ ~state.isGameOver /\ ~FatalCond /\ CandHead = state.food
         /\ state'.food # Pt(0, 0)) =>
        /\ last'.reward = 3000
        /\ InBoard(state'.food)
        /\ state'.food \notin state'.walls
        /\ state'.food \notin Cells(state'.snake)
        /\ state'.food \notin ItemCells(state'.specialItems) ]_vars

\* C9 (as claimed), for portals off the fallback cell (0,0): when a goal
\* consumption brings the progress counter to 10 with the portal closed, the
\* portal is open after the step, on a cell of the board that is no
\* obstacle, no body cell and not the goal's cell.
C9_PortalOpened ==
  [][ (Moves /\ CandHead = state.food /\ ~state.portalOpen
         /\ state.itemsCollectedInLevel + 1 = 10
         /\ state'.portalPoint # << Pt(0, 0) >>) =>
        /\ state'.portalOpen
        /\ state'.portalPoint # << >>
        /\ InBoard(state'.portalPoint[1])
        /\ state'.portalPoint[1] \notin state'.walls
        /\ state'.portalPoint[1] \notin Cells(state'.snake)
        /\ state'.portalPoint[1] # state'.food ]_vars

\* C10: a non-fatal step onto the open portal returns 250 and leaves the
\* next level's fresh episode: spawn body, no items, portal closed and
\* unset, step and progress counters 0, the new level's obstacles, live;
\* the score is unchanged and nothing on that cell is consumed.
C10_PortalAdvance ==
  [][ (Called /\ ~state.isGameOver /\ ~FatalCond /\ OnPortal) =>
        /\ last'.reward = 25000
        /\ state'.level = state.level + 1
        /\ state'.snake = << Pt(15, 15), Pt(15, 16), Pt(15, 17) >>
        /\ state'.specialItems = << >>
        /\ ~state'.portalOpen /\ state'.portalPoint = << >>
        /\ state'.steps = 0
        /\ state'.itemsCollectedInLevel = 0
        /\ state'.walls = getLevelWalls(state.level + 1)
        /\ wallMap' = state'.walls
        /\ (state.level = 1 =>
              /\ Cardinality(state'.walls) = 36
              /\ Pt(15, 10) \in state'.walls /\ Pt(10, 15) \notin state'.walls)
        /\ ~state'.isGameOver
        /\ state'.score = state.score
        /\ state'.slowEffectSteps = Max(0, state.slowEffectSteps - 1) ]_vars

\* C10 witness: level 4 entered through the portal of level 3.
C10_Witness ==
  /\ last.kind = "portal" /\ last.reward = 25000
  /\ state.level = 4 /\ state.steps = 0 /\ state.snake = SpawnSnake
  /\ state.score >= LEVEL_GOAL

\* C11 (as claimed): after every call no active item has an expiry step
\* less than or equal to the step counter, on finished episodes too, and a
\* moving step consumes no item whose expiry step the incremented step
\* counter has reached.
C11_ItemsExpire ==
  [][ /\ \A i \in 1..Len(state'.specialItems) :
           state'.specialItems[i].expires > state'.steps
      /\ (Moves /\ PickedType # "NONE") =>
           state.specialItems[pickedItemIndex(state.specialItems, CandHead)].expires
             > state.steps + 1 ]_vars

\* C12: in every reachable state at most 3 items are active.
C12_ItemCap == Len(state.specialItems) <= 3

\* C12 witness: a spawn tick met with two items on the board; the spawn
\* pushed a third one and the filter then dropped the expired first one.
C12_Witness ==
  /\ last.spawned /\ state.steps = 225
  /\ Len(state.specialItems) = 2
  /\ state.specialItems[1].expires = 300
  /\ state.specialItems[2].expires = 375
  /\ state.specialItems[1].type = "SCISSORS"

\* A decision: an update call made on a live episode.
Decided == last'.op = "update" /\ moves' = moves + 1 /\ ~state.isGameOver

\* C13 (as claimed): no decision increases the exploration rate, and after
\* every decision the exploration rate is at least epsilonMin (0.01).
C13_EpsilonFloor ==
  [][ Decided => (epsilon' <= epsilon /\ epsilon' >= epsilonMin) ]_vars

\* C14: every call of update, reset, getCurrentStateQValues and
\* chooseAction leaves a value table whose entries are vectors of exactly 4
\* integers and which keeps every entry it had; an entry it creates is
\* all-zero, but for the one component that the update call which created
\* it went on to write.
C14_TableGrows ==
  [][ /\ \A k \in DOMAIN qTable' :
           DOMAIN qTable'[k] = 1..4 /\ \A i \in 1..4 : qTable'[k][i] \in Int
      /\ DOMAIN qTable \subseteq DOMAIN qTable'
      /\ Cardinality(DOMAIN qTable') >= Cardinality(DOMAIN qTable)
      /\ \A k \in DOMAIN qTable' \ DOMAIN qTable :
           \A i \in 1..4 :
             \/ qTable'[k][i] = 0
             \/ /\ last'.op = "update"
                /\ k = getStateString(state, wallMap)
                /\ i = last'.action + 1 ]_vars

\* C14 witness: getCurrentStateQValues has just created an all-zero entry
\* in a table that already held a written entry.
C14_Witness ==
  /\ last.op = "getCurrentStateQValues" /\ last.kind = "created"
  /\ qTable[getStateString(state, wallMap)] = << 0, 0, 0, 0 >>
  /\ \E k \in DOMAIN qTable : qTable[k] # << 0, 0, 0, 0 >>
  /\ Cardinality(DOMAIN qTable) >= 3

\* C15 (as claimed): a decision whose step leaves the episode live adds
\* +0.8 to the step's reward when the Manhattan distance from the new head
\* to the target active after the move is below the distance from the old
\* head to the target active before it, -0.8 when it is above, nothing when
\* equal; a decision whose step ends the episode adds nothing.
C15_ShapingNewTarget ==
  [][ Decided =>
        LET distBefore == Manhattan(state.snake[1], target(state))
            distAfter == Manhattan(state'.snake[1], target(state'))
        IN last'.reward =
             IF state'.isGameOver THEN last'.raw
             ELSE IF distAfter < distBefore THEN last'.raw + 80
             ELSE IF distAfter > distBefore THEN last'.raw - 80
             ELSE last'.raw ]_vars

\* The value stored for fingerprint k and component i (1..4) before the
\* call, an entry not yet created counting as zeros.
OldQ(k, i) == IF k \in DOMAIN qTable THEN qTable[k][i] ELSE 0

\* C16: a decision sets Q[s][a], for the fingerprint s of the state before
\* the move and the chosen action a, to Q[s][a] + 0.25*(r + 0.95*B - Q[s][a])
\* where r is the shaped reward and B is 0 when the step ended the episode
\* and else the maximum of the vector that the fingerprint of the state
\* after the move had before the write; every other component of every
\* entry keeps its value.
C16_TDUpdate ==
  [][ Decided =>
        LET s == getStateString(state, wallMap)
            a == last'.action + 1
            s2 == getStateString(state', wallMap')
            m12 == IF OldQ(s2, 1) >= OldQ(s2, 2) THEN OldQ(s2, 1) ELSE OldQ(s2, 2)
            m34 == IF OldQ(s2, 3) >= OldQ(s2, 4) THEN OldQ(s2, 3) ELSE OldQ(s2, 4)
            B == IF state'.isGameOver THEN 0
                 ELSE IF m12 >= m34 THEN m12 ELSE m34
        IN /\ s \in DOMAIN qTable'
           /\ qTable'[s][a] =
                OldQ(s, a) + (25 * (last'.reward * 100 + (95 * B) \div 100 - OldQ(s, a))) \div 100
           /\ \A k \in DOMAIN qTable' : \A i \in 1..4 :
                (k # s \/ i # a) => qTable'[k][i] = OldQ(k, i) ]_vars

\* C16 witness: the decision UP that ate the goal above the head and left
\* the same fingerprint: 1.5 became 1.5 + 0.25*(30.8 + 0.95*1.5 - 1.5), the
\* maximum 1.5 being the one read before the write.
C16_Witness ==
  /\ last.op = "update" /\ last.ate /\ last.action = 0 /\ last.reward = 3080
  /\ getStateString(state, wallMap) = FreshKey("C")
  /\ qTable[FreshKey("C")] = << 91812, 15000, -4000, 15000 >>

\* C17: every action selection, made by a chooseAction call or inside a
\* decision, yields an index in 0..3, which a decision maps to UP, DOWN,
\* LEFT, RIGHT in this order; on the greedy branch the index is the lowest
\* one whose stored value equals the maximum of the fingerprint's vector.
C17_ActionChoice ==
  [][ (moves' = moves + 1 /\ (Decided \/ last'.op = "chooseAction")) =>
        LET s == getStateString(state, wallMap)
            a == last'.action
        IN /\ a \in {0, 1, 2, 3}
           /\ last'.op = "update" => last'.dir = << "UP", "DOWN", "LEFT", "RIGHT" >>[a + 1]
           /\ ~last'.explore =>
                /\ \A i \in 1..4 : OldQ(s, i) <= OldQ(s, a + 1)
                /\ \A i \in 1..a : OldQ(s, i) < OldQ(s, a + 1) ]_vars

\* C17 witness: a greedy decision on the vector [-0.3, 1.2, 1.2, 0.7] of the
\* fresh episode with the goal to the left: of the tied actions 1 and 2 the
\* first, DOWN, was taken (into the body).
C17_Witness ==
  /\ last.op = "update" /\ ~last.explore /\ last.action = 1 /\ last.dir = "DOWN"
  /\ last.kind = "fatal" /\ moves = 1
  /\ state.food = Pt(14, 14) /\ state.snake = SpawnSnake

\* The episode state s with every field the fingerprint is claimed not to
\* read set to a value the episode never has.
Covered(s) ==
  [s EXCEPT !.steps = -1, !.score = -1, !.level = 0, !.itemsCollectedInLevel = -1,
            !.slowEffectSteps = -1, !.specialItems = << >>]

\* C18: the fingerprint of every reachable state is the fingerprint of the
\* state that has the same body, obstacles, goal and portal and other step
\* counter, score, level, progress, slow-effect counter and items (so two
\* states agreeing on the former have the same fingerprint); a call that
\* computes the fingerprint leaves the episode state as it was, and computed
\* again right away it addresses the same table entry.
C18_FingerprintPure ==
  [][ /\ getStateString(state', wallMap') = getStateString(Covered(state'), wallMap')
      /\ getStateString(state, wallMap) = getStateString(Covered(state), wallMap)
      /\ (moves' = moves + 1 /\ last'.op = "getCurrentStateQValues") =>
           /\ state' = state /\ wallMap' = wallMap
           /\ getStateString(state, wallMap) \in DOMAIN qTable'
           /\ last.op = "getCurrentStateQValues" =>
                (last'.kind = "found" /\ qTable' = qTable) ]_vars

\* C18 witness: the fingerprint computed twice in a row on an episode with
\* items on the board, a score and a running slow effect.
C18_Witness ==
  /\ last.op = "getCurrentStateQValues" /\ last.kind = "found"
  /\ Len(state.specialItems) >= 1 /\ state.score > 0
  /\ state.slowEffectSteps > 0 /\ state.steps = 231
  /\ state.specialItems[1].point = Pt(16, 15)
  /\ state.snake[1] = Pt(15, 14)

\* The cells isPointWall is asked about: every obstacle of the episode,
\* the cells of the body and the goal, cells that are obstacles at some
\* levels only, and cells off each side and corner of the board.
ProbeCells ==
  state.walls \cup Cells(state.snake) \cup { state.food }
  \cup { Pt(15, 10), Pt(10, 15), Pt(0, 13), Pt(15, 18), Pt(29, 29), Pt(0, 0) }
  \cup { Pt(-1, 0), Pt(30, 29), Pt(0, -1), Pt(29, 30), Pt(-1, -1), Pt(30, 30),
         Pt(-1, 30), Pt(30, -1), Pt(15, 30), Pt(-2, 15) }

\* C19: in every reachable state the obstacle set is that of the current
\* level, the cached wall map marks exactly its cells, and isPointWall(x, y)
\* is true exactly for the cells off the board and the cells of the
\* obstacle set.
C19_WallMapCurrent ==
  /\ state.walls = getLevelWalls(state.level)
  /\ wallMap = state.walls
  /\ \A p \in ProbeCells :
       isPointWall(wallMap, p.x, p.y) <=>
         (p.x < 0 \/ p.x > 29 \/ p.y < 0 \/ p.y > 29 \/ p \in state.walls)

\* C19 witness: level 4 entered from level 3; the cell (15,10), an obstacle
\* of level 3, is free and the cell (0,13) is an obstacle.
C19_Witness ==
  /\ state.level = 4 /\ last.kind = "portal"
  /\ ~isPointWall(wallMap, 15, 10) /\ isPointWall(wallMap, 0, 13)
  /\ isPointWall(wallMap, 30, 13) /\ isPointWall(wallMap, 0, -1)

\* C20: a reset call leaves a live episode of the level the previous
\* episode had reached, with the spawn body, score, step counter and
\* progress 0, no items, the portal closed, and that level's obstacles; it
\* sets the episode's reward total to 0 and leaves the value table, the
\* exploration rate and the lifetime step count as they were; and no call
\* lowers the level.
C20_ResetKeepsLevel ==
  [][ /\ (moves' = moves + 1 /\ last'.op = "reset") =>
           /\ state'.level = state.level
           /\ ~state'.isGameOver
           /\ state'.snake = << Pt(15, 15), Pt(15, 16), Pt(15, 17) >>
           /\ state'.score = 0 /\ state'.steps = 0
           /\ state'.itemsCollectedInLevel = 0
           /\ state'.specialItems = << >>
           /\ ~state'.portalOpen /\ state'.portalPoint = << >>
           /\ state'.walls = getLevelWalls(state.level)
           /\ wallMap' = state'.walls
           /\ totalReward' = 0
           /\ qTable' = qTable /\ epsilon' = epsilon
           /\ totalStepsEver' = totalStepsEver
      /\ state'.level >= state.level ]_vars

\* C20 witness: a reset made at level 2, which a decision had entered
\* through the portal, after one more decision there.
C20_Witness ==
  /\ last.op = "reset" /\ state.level = 2 /\ moves = 3
  /\ state.steps = 0 /\ state.score = 0 /\ totalReward = 0
  /\ totalStepsEver = TrainedSteps + 2

\* C21: what saveToStorage stores, loaded into a new agent or into an
\* agent holding other values, gives the saving agent's value table,
\* exploration rate and lifetime step count; and an agent constructed right
\* after a save holds the three as the saving agent held them.
C21_SaveLoadRoundTrip ==
  [][ /\ (moves' = moves + 1 /\ last'.op = "save") =>
           /\ loadFromStorage(<< >>, epsilonStart, 0, storage')
                = [qTable |-> qTable, epsilon |-> epsilon,
                   totalStepsEver |-> totalStepsEver]
           /\ loadFromStorage(TrainedTable, EpsilonNearFloor, 7, storage')
                = [qTable |-> qTable, epsilon |-> epsilon,
                   totalStepsEver |-> totalStepsEver]
      /\ (moves' = moves + 1 /\ last'.op = "construct" /\ last.op = "save") =>
           /\ qTable' = qTable
           /\ epsilon' = epsilon
           /\ totalStepsEver' = totalStepsEver ]_vars

\* C21 witness: an agent constructed from what a trained agent saved after
\* one more decision: a table with a written entry, epsilon 0.00999998 and
\* 1535055 steps.
C21_Witness ==
  /\ last.op = "construct"
  /\ storage = saveToStorage(qTable, epsilon, totalStepsEver)
  /\ epsilon = 999998 /\ totalStepsEver = 1535055
  /\ \E k \in DOMAIN qTable : qTable[k] # TrainedTable[FreshKey("C")]
                               /\ \E i \in 1..4 : qTable[k][i] < 0

\* C22 (as claimed): an agent constructed while localStorage holds a
\* malformed item has the default value table (empty), exploration rate
\* (1.0) and lifetime step count (0).
C22_MalformedImport ==
  [][ (moves' = moves + 1 /\ last'.op = "construct" /\ storage \in BadStores) =>
        /\ qTable' = << >>
        /\ epsilon' = epsilonStart
        /\ totalStepsEver' = 0 ]_vars

\* C23: in every live state the step counter is at most 3000 + 50*score;
\* a step from a live state leaves the step counter 0 when it advances the
\* level and one higher than before otherwise, a fatal step included.
C23_StepBudget ==
  [][ /\ ~state.isGameOver => state.steps <= 3000 + 50 * state.score
      /\ ~state'.isGameOver => state'.steps <= 3000 + 50 * state'.score
      /\ (Called /\ ~state.isGameOver) =>
           state'.steps = IF ~FatalCond /\ OnPortal THEN 0 ELSE state.steps + 1 ]_vars

\* C23 witness: a live episode at step 3001 with a score of 1, the goal
\* eaten at step 3000 having raised the budget to 3050.
C23_Witness ==
  /\ ~state.isGameOver /\ state.steps = 3001 /\ state.score = 1
  /\ last.op = "step" /\ last.kind = "move"

\* The item a spawn has pushed: the last of the items after the call.
NewItem == state'.specialItems[Len(state'.specialItems)]

\* C24 (as claimed): a step call raises the number of active items only
\* when it moves the snake, the incremented step counter is a multiple of
\* 75 and fewer than 3 items were active; the number then rises by exactly
\* one, the new item expires 150 steps later, and its cell is no obstacle,
\* no cell of the body and not the cell of another active item.
C24_SpawnAsClaimed ==
  [][ (Called /\ Len(state'.specialItems) > Len(state.specialItems)) =>
        /\ Moves /\ PickedType = "NONE"
        /\ state'.steps % 75 = 0
        /\ Len(state.specialItems) < 3
        /\ Len(state'.specialItems) = Len(state.specialItems) + 1
        /\ NewItem.expires = state'.steps + 150
        /\ NewItem.point \notin state'.walls
        /\ NewItem.point \notin Cells(state'.snake)
        /\ \A i \in 1..Len(state.specialItems) :
             NewItem.point # state'.specialItems[i].point ]_vars

\* C24 (amended): as C24, but the new item's cell is no obstacle, no cell
\* of the body and not the cell of another active item unless it is the
\* fallback cell (0,0) of an exhausted search.
C24_SpawnUnlessFallback ==
  [][ (Called /\ Len(state'.specialItems) > Len(state.specialItems)) =>
        /\ Moves /\ PickedType = "NONE"
        /\ state'.steps % 75 = 0
        /\ Len(state.specialItems) < 3
        /\ Len(state'.specialItems) = Len(state.specialItems) + 1
        /\ NewItem.expires = state'.steps + 150
        /\ \/ NewItem.point = Pt(0, 0)
           \/ /\ NewItem.point \notin state'.walls
              /\ NewItem.point \notin Cells(state'.snake)
              /\ \A i \in 1..Len(state.specialItems) :
                   NewItem.point # state'.specialItems[i].point ]_vars

\* C24 witness: the first spawn tick (step 75) has put the first item on
\* the board, on a cell other than (0,0).
C24_Witness ==
  /\ last.op = "step" /\ last.spawned /\ state.steps = 75
  /\ Len(state.specialItems) = 1
  /\ state.specialItems[1].expires = 225
  /\ state.specialItems[1].point # Pt(0, 0)

\* C25: the slow-effect counter is always in 0..20; a step from a live
\* state that consumes a slowing item leaves it at 20, and every other step
\* from a live state, fatal steps and level advances included, leaves it
\* one lower when it was positive and at 0 when it was 0.
C25_SlowCounter ==
  [][ /\ state.slowEffectSteps \in 0..20
      /\ state'.slowEffectSteps \in 0..20
      /\ (Called /\ ~state.isGameOver) =>
           state'.slowEffectSteps =
             IF Moves /\ PickedType = "ICE" THEN 20
             ELSE IF state.slowEffectSteps > 0 THEN state.slowEffectSteps - 1
             ELSE 0 ]_vars

\* C25 witness: level 2 entered through the portal with the slow effect
\* still running, one lower than before the step.
C25_Witness ==
  /\ last.kind = "portal" /\ state.level = 2 /\ state.steps = 0
  /\ state.slowEffectSteps = 6 /\ state.score = 12

\* The cell k unit steps from the head of s along ray i.
RayCell(s, i, k) ==
  Pt(s.snake[1].x + k * rayDirs[i].x, s.snake[1].y + k * rayDirs[i].y)

\* The cell ends a ray: it is off the board, a body segment or an obstacle.
RayStops(s, wm, c) == ~InBoard(c) \/ c \in Cells(s.snake) \/ c \in wm

\* What ray i of s must report.
RayCorrect(s, wm, i, v) ==
  LET K == {k \in 1..v.dist : RayCell(s, i, k) \in ItemCells(s.specialItems)}
  IN /\ v.bodyFound # v.wallFound
     /\ v.dist >= 1
     /\ RayStops(s, wm, RayCell(s, i, v.dist))
     /\ \A k \in 1..(v.dist - 1) : ~RayStops(s, wm, RayCell(s, i, k))
     /\ v.bodyFound <=> (InBoard(RayCell(s, i, v.dist))
                          /\ RayCell(s, i, v.dist) \in Cells(s.snake))
     /\ IF K = {}
        THEN v.itemFound = << >> /\ v.itemDist = << >>
        ELSE LET n == CHOOSE k \in K : \A j \in K : k <= j
             IN /\ v.itemDist = << n >>
                /\ \E j \in 1..Len(s.specialItems) :
                     /\ s.specialItems[j].point = RayCell(s, i, n)
                     /\ v.itemFound = << s.specialItems[j].type >>

\* C27: in every reachable episode state each of the 8 rays reports
\* exactly one terminating cause (body or obstacle, leaving the board being
\* an obstacle), as distance the number of unit steps (at least 1) from the
\* head to the first cell that is off the board, a body segment or an
\* obstacle, and as item the type and distance of the nearest item on the
\* ray up to that cell, or no item when there is none.
C27_Rays ==
  LET vision == getVisionExtended(state, wallMap)
  IN \A i \in 1..8 : RayCorrect(state, wallMap, i, vision[i])

\* C27 witness: after a move up, the head on (15,14) sees the item on (16,15)
\* at distance 1 on the down-right ray, its own body at distance 1 below
\* and the edge of the board at distance 15 above.
C27_Witness ==
  /\ moves >= 1 /\ last.dir = "UP" /\ state.snake[1] = Pt(15, 14) /\ ~state.isGameOver
  /\ LET vision == getVisionExtended(state, wallMap)
     IN /\ vision[8].itemFound = << "SCISSORS" >> /\ vision[8].itemDist = << 1 >>
        /\ vision[2].bodyFound /\ vision[2].dist = 1
        /\ vision[1].wallFound /\ vision[1].dist = 15
        /\ vision[1].itemFound = << >>

\* C26: every iteration of the host loop makes exactly one simulation step
\* on a live episode (never a decision on a finished one); an iteration
\* that starts on a finished episode leaves a new episode of the same
\* level, one step in, with only that step's reward counted.
C26_HostLoop ==
  [][ (moves' = moves + 1 /\ last'.op = "iterate") =>
        /\ last'.kind \in {"move", "fatal", "portal"}
        /\ totalStepsEver' = totalStepsEver + 1
        /\ ~state.isGameOver =>
             state'.steps = IF last'.kind = "portal" THEN 0 ELSE state.steps + 1
        /\ state.isGameOver =>
             /\ state'.level = state.level
             /\ state'.steps = 1
             /\ totalReward' = last'.reward
             /\ \E g \in SnakeGame(state.level) : \E d \in Directions :
                  \E o \in step(g.state, g.wallMap, d) :
                    o.state = state' /\ o.wallMap = wallMap' ]_vars

\* C26 witness: the third iteration, after the portal was taken in the
\* first and the episode ended in the second, is one step into a new
\* episode at level 2.
C26_Witness ==
  /\ last.op = "iterate" /\ moves = 3 /\ state.level = 2 /\ state.steps = 1
  /\ ~state.isGameOver /\ totalReward = last.reward
  /\ state.snake[1] = Pt(15, 14)

\* C28: in every reachable episode state the portal is open exactly when
\* the level's progress counter is at least 10, and an open portal has a
\* cell, on the board, which is then the target of the fingerprint and of
\* the shaping distance.
C28_PortalIffProgress ==
  /\ state.portalOpen <=> state.itemsCollectedInLevel >= LEVEL_GOAL
  /\ state.portalOpen =>
       /\ Len(state.portalPoint) = 1
       /\ InBoard(state.portalPoint[1])
       /\ target(state) = state.portalPoint[1]
       /\ visionTarget(state) = state.portalPoint[1]
  /\ ~state.portalOpen => state.portalPoint = << >>

\* C28 witness: the 10th goal of the level was just eaten and the portal
\* opened with it.
C28_Witness ==
  /\ last.op = "step" /\ last.opened /\ last.ate
  /\ state.portalOpen /\ state.itemsCollectedInLevel = LEVEL_GOAL
  /\ Len(state.portalPoint) = 1 /\ ~state.isGameOver

\* The body of s has at least 3 segments, each next to the one before it.
BodyChained(s) ==
  /\ Len(s.snake) >= 3
  /\ \A i \in 1..(Len(s.snake) - 1) : Manhattan(s.snake[i], s.snake[i + 1]) = 1

\* The direction of the step that leads back against the heading h.
Reverse(h) ==
  CASE h = "U" -> "DOWN" [] h = "D" -> "UP"
    [] h = "L" -> "RIGHT" [] h = "R" -> "LEFT" [] OTHER -> "NONE"

\* C29: in every reachable episode state the body has at least 3 segments
\* and consecutive segments are orthogonally adjacent; the heading of the
\* fingerprint is therefore one of U, D, L, R, and a step from a live state
\* in the direction opposite to the heading is fatal.
C29_BodyChained ==
  [][ LET heading == getStateString(state, wallMap)[11]
      IN /\ BodyChained(state) /\ BodyChained(state')
         /\ heading \in {"U", "D", "L", "R"}
         /\ getStateString(state', wallMap')[11] \in {"U", "D", "L", "R"}
         /\ moveHead(state.snake[1], Reverse(heading)) = state.snake[2]
         /\ (Called /\ ~state.isGameOver /\ last'.dir = Reverse(heading)) =>
              /\ state'.isGameOver
              /\ last'.kind = "fatal" /\ last'.reward = RewardDeath
              /\ state'.snake = state.snake ]_vars

\* C29 witness: a body of 3 segments consumed a cutting item, kept its 3
\* segments, and then stepped back onto its neck, which ended the episode.
C29_Witness ==
  /\ last.op = "step" /\ last.kind = "fatal" /\ last.dir = "LEFT"
  /\ state.snake = << Pt(16, 15), Pt(15, 15), Pt(15, 16) >>
  /\ state.score = ScoreScissors /\ state.isGameOver

\* The steps left in the budget of the current state, the fatal one included.
Left == maxSteps + BudgetPerScore * state.score - state.steps + 1

\* The last call was a step that changed the score or advanced the level.
Progressed ==
  last.op = "step" /\ (state.score # last.preScore \/ last.kind = "portal")

\* C30: from a live state with score s and step counter t, reached after m
\* calls, a terminal state or a step that changes the score or advances the
\* level follows within n = 3000 + 50*s - t + 1 further steps (checked for
\* the states that have n steps left to take).
C30_BoundedPlay ==
  \A m \in 0..(MaxMoves - 1) : \A n \in 1..(MaxMoves - m) :
    (~state.isGameOver /\ moves = m /\ Left = n)
      ~> (moves > m /\ moves <= m + n /\ (state.isGameOver \/ Progressed))

\* C30 witness: an episode with 2 steps left took 2 steps on free cells
\* without scoring and ended on the second.
C30_Witness ==
  /\ moves = 2 /\ state.isGameOver /\ state.score = 0 /\ state.level = 1
  /\ state.steps = maxSteps + 1 /\ last.kind = "fatal"
  /\ state.snake[1] = Pt(15, 13)

====
